---- MODULE Spec2Model ----
(***************************************************************************)
(* Model of server/agent.js (the query intent resolver and router of       *)
(* YtChat) and of the ingestion entry point of server/embeddings.js.       *)
(*                                                                         *)
(* Utterances are TLA+ strings; every regular expression of agent.js is    *)
(* translated to an operator that finds the leftmost match the way the     *)
(* JavaScript engine does (leftmost start, greedy quantifiers) and returns *)
(* its capture groups.                                                     *)
(***************************************************************************)
EXTENDS Integers, Sequences, FiniteSets, TLC

(***************************************************************************)
(* Characters and strings                                                  *)
(***************************************************************************)
At(s, i) == IF i >= 1 /\ i <= Len(s) THEN SubSeq(s, i, i) ELSE ""

Digits == "0123456789"
UpperCase == "ABCDEFGHIJKLMNOPQRSTUVWXYZ"
LowerCase == "abcdefghijklmnopqrstuvwxyz"

IndexIn(alphabet, c) ==
  IF \E k \in 1..Len(alphabet) : SubSeq(alphabet, k, k) = c
  THEN CHOOSE k \in 1..Len(alphabet) : SubSeq(alphabet, k, k) = c
  ELSE 0

\* \d
IsDigit(c) == IndexIn(Digits, c) > 0
\* \s
IsSpace(c) == c \in {" ", "\t", "\n", "\r", "\f"}
\* [^\s]  (a character must be present)
IsNonSpace(c) == c # "" /\ ~IsSpace(c)
\* \w
IsWord(c) == IsDigit(c) \/ IndexIn(UpperCase, c) > 0 \/ IndexIn(LowerCase, c) > 0 \/ c = "_"

LowerChar(c) ==
  IF IndexIn(UpperCase, c) > 0
  THEN SubSeq(LowerCase, IndexIn(UpperCase, c), IndexIn(UpperCase, c))
  ELSE c

RECURSIVE toLowerCase(_)
toLowerCase(s) ==
  IF Len(s) = 0 THEN "" ELSE LowerChar(SubSeq(s, 1, 1)) \o toLowerCase(SubSeq(s, 2, Len(s)))

\* the literal p occurs in s at position i
LitAt(s, i, p) == i >= 1 /\ i + Len(p) - 1 <= Len(s) /\ SubSeq(s, i, i + Len(p) - 1) = p
\* the same under the regex flag /i (p is written in lower case)
LitAtI(s, i, p) ==
  i >= 1 /\ i + Len(p) - 1 <= Len(s) /\ toLowerCase(SubSeq(s, i, i + Len(p) - 1)) = p

Contains(s, p) == \E i \in 1..Len(s) : LitAt(s, i, p)
ContainsI(s, p) == \E i \in 1..Len(s) : LitAtI(s, i, p)

SetMin(S) == CHOOSE x \in S : \A y \in S : x <= y
SetMax(S) == CHOOSE x \in S : \A y \in S : x >= y

\* last position of the run of digits that starts at i (i - 1 when there is none)
RECURSIVE DigitRunEnd(_, _)
DigitRunEnd(s, i) == IF IsDigit(At(s, i)) THEN DigitRunEnd(s, i + 1) ELSE i - 1

\* last position of the run of whitespace that starts at i (i - 1 when there is none)
RECURSIVE SpaceRunEnd(_, _)
SpaceRunEnd(s, i) == IF IsSpace(At(s, i)) THEN SpaceRunEnd(s, i + 1) ELSE i - 1

\* last position of the run of [^\s] that starts at i
RECURSIVE NonSpaceRunEnd(_, _)
NonSpaceRunEnd(s, i) == IF IsNonSpace(At(s, i)) THEN NonSpaceRunEnd(s, i + 1) ELSE i - 1

\* greedy extent of [^\s]+(?: [^\s]+)* started at i (i - 1 when it does not match)
RECURSIVE ChainEnd(_, _)
ChainEnd(s, i) ==
  LET e == NonSpaceRunEnd(s, i)
  IN IF e < i THEN i - 1
     ELSE IF At(s, e + 1) = " " /\ IsNonSpace(At(s, e + 2)) THEN ChainEnd(s, e + 2)
     ELSE e

\* parseInt(d, 10) for a string of digits
RECURSIVE parseInt(_)
parseInt(d) ==
  IF Len(d) = 0 THEN 0
  ELSE 10 * parseInt(SubSeq(d, 1, Len(d) - 1)) + (IndexIn(Digits, SubSeq(d, Len(d), Len(d))) - 1)

\* String.prototype.trim
RECURSIVE trim(_)
trim(s) ==
  IF Len(s) = 0 THEN ""
  ELSE IF IsSpace(SubSeq(s, 1, 1)) THEN trim(SubSeq(s, 2, Len(s)))
  ELSE IF IsSpace(SubSeq(s, Len(s), Len(s))) THEN trim(SubSeq(s, 1, Len(s) - 1))
  ELSE s

\* result of String.prototype.match: no match, or the capture groups
NoMatch == [m |-> FALSE, g1 |-> "", g2 |-> "", g3 |-> ""]
Match(a, b, c) == [m |-> TRUE, g1 |-> a, g2 |-> b, g3 |-> c]

\* the leftmost match of a pattern, given its match at a fixed start position
FirstMatch(s, MatchAt(_)) ==
  LET starts == {i \in 1..Len(s) : MatchAt(i).m}
  IN IF starts = {} THEN NoMatch ELSE MatchAt(SetMin(starts))

(***************************************************************************)
(* The regular expressions of agent.js                                     *)
(***************************************************************************)
UrlPrefixes == <<"youtube.com/watch?v=", "youtu.be/", "youtube.com/embed/">>

\* end of (?:youtube\.com\/watch\?v=|youtu\.be\/|youtube\.com\/embed\/) at i, 0 if none
UrlPrefixEnd(s, i) ==
  IF LitAt(s, i, UrlPrefixes[1]) THEN i + Len(UrlPrefixes[1]) - 1
  ELSE IF LitAt(s, i, UrlPrefixes[2]) THEN i + Len(UrlPrefixes[2]) - 1
  ELSE IF LitAt(s, i, UrlPrefixes[3]) THEN i + Len(UrlPrefixes[3]) - 1
  ELSE 0

\* /(https?:\/\/(?:www\.|m\.)?(?:youtube\.com\/watch\?v=|youtu\.be\/|youtube\.com\/embed\/)[^\s]+)/
YoutubeUrlAt(s, i) ==
  IF ~LitAt(s, i, "http") THEN NoMatch
  ELSE LET j1 == IF At(s, i + 4) = "s" THEN i + 5 ELSE i + 4
           j2 == j1 + 3
           j3 == IF LitAt(s, j2, "www.") THEN j2 + 4
                 ELSE IF LitAt(s, j2, "m.") THEN j2 + 2 ELSE j2
           pe == UrlPrefixEnd(s, j3)
           e  == NonSpaceRunEnd(s, pe + 1)
       IN IF LitAt(s, j1, "://") /\ pe > 0 /\ e > pe
          THEN Match(SubSeq(s, i, e), "", "") ELSE NoMatch

IsIdChar(c) == c # "" /\ c \notin {"&", "\n", "?", "#"}

RECURSIVE IdRunEnd(_, _)
IdRunEnd(s, i) == IF IsIdChar(At(s, i)) THEN IdRunEnd(s, i + 1) ELSE i - 1

\* /(?:youtube\.com\/watch\?v=|youtu\.be\/|youtube\.com\/embed\/)([^&\n?#]+)/
VideoIdAt(s, i) ==
  LET pe == UrlPrefixEnd(s, i)
      e  == IdRunEnd(s, pe + 1)
  IN IF pe > 0 /\ e > pe THEN Match(SubSeq(s, pe + 1, e), "", "") ELSE NoMatch

\* /(\d+)(?:st|nd|rd|th)? minute/
NthMinuteAt(s, i) ==
  IF ~IsDigit(At(s, i)) THEN NoMatch
  ELSE LET e == DigitRunEnd(s, i)
           suffixed == \E x \in {"st", "nd", "rd", "th"} : LitAt(s, e + 1, x)
           k == IF suffixed THEN e + 3 ELSE e + 1
       IN IF LitAt(s, k, " minute") THEN Match(SubSeq(s, i, e), "", "") ELSE NoMatch

\* /at (\d+):(\d{2})/
AtTimeAt(s, i) ==
  IF ~(LitAt(s, i, "at ") /\ IsDigit(At(s, i + 3))) THEN NoMatch
  ELSE LET e == DigitRunEnd(s, i + 3)
       IN IF At(s, e + 1) = ":" /\ IsDigit(At(s, e + 2)) /\ IsDigit(At(s, e + 3))
          THEN Match(SubSeq(s, i + 3, e), SubSeq(s, e + 2, e + 3), "") ELSE NoMatch

RECURSIVE WordSpaceRunEnd(_, _)
WordSpaceRunEnd(s, i) ==
  IF IsWord(At(s, i)) \/ IsSpace(At(s, i)) THEN WordSpaceRunEnd(s, i + 1) ELSE i - 1

\* /about ([\w\s]+)/i and /topic ([\w\s]+)/i
KeywordTopicAt(s, i, kw) ==
  LET p == i + Len(kw) + 1
      e == WordSpaceRunEnd(s, p)
  IN IF LitAtI(s, i, kw \o " ") /\ e >= p THEN Match(SubSeq(s, p, e), "", "") ELSE NoMatch

RECURSIVE NonQuoteRunEnd(_, _)
NonQuoteRunEnd(s, i) ==
  IF At(s, i) # "" /\ At(s, i) # "\"" THEN NonQuoteRunEnd(s, i + 1) ELSE i - 1

\* /"([^"]+)"/
QuotedAt(s, i) ==
  LET e == NonQuoteRunEnd(s, i + 1)
  IN IF At(s, i) = "\"" /\ e > i /\ At(s, e + 1) = "\""
     THEN Match(SubSeq(s, i + 1, e), "", "") ELSE NoMatch

Units == <<"minute", "hour", "second">>

\* /kw (\d+) (minute|hour|second)s?/  for kw = first, last, after, before
UnitPhraseAt(s, i, kw) ==
  LET p == i + Len(kw) + 1
      e == DigitRunEnd(s, p)
      us == {u \in 1..3 : LitAt(s, e + 2, Units[u])}
  IN IF LitAt(s, i, kw \o " ") /\ e >= p /\ At(s, e + 1) = " " /\ us # {}
     THEN Match(SubSeq(s, p, e), Units[CHOOSE u \in us : TRUE], "") ELSE NoMatch

\* /(\d+)\s*(?:h|hour)/i, /(\d+)\s*(?:m|min)/i, /(\d+)\s*(?:s|sec)/i : letter is h, m, s
ComponentAt(s, i, letter) ==
  IF ~IsDigit(At(s, i)) THEN NoMatch
  ELSE LET e == DigitRunEnd(s, i)
           w == SpaceRunEnd(s, e + 1)
       IN IF LitAtI(s, w + 1, letter) THEN Match(SubSeq(s, i, e), "", "") ELSE NoMatch

\* /(\d+):(\d{2})(?::(\d{2}))?/
ColonAt(s, i) ==
  IF ~IsDigit(At(s, i)) THEN NoMatch
  ELSE LET e == DigitRunEnd(s, i)
           third == At(s, e + 4) = ":" /\ IsDigit(At(s, e + 5)) /\ IsDigit(At(s, e + 6))
       IN IF At(s, e + 1) = ":" /\ IsDigit(At(s, e + 2)) /\ IsDigit(At(s, e + 3))
          THEN Match(SubSeq(s, i, e), SubSeq(s, e + 2, e + 3),
                     IF third THEN SubSeq(s, e + 5, e + 6) ELSE "")
          ELSE NoMatch

\* /kw ([^\s]+(?: [^\s]+)*) sep ([^\s]+(?: [^\s]+)*)/i  for from..to and between..and:
\* the first group is greedy, so it ends at the last separator that lets the rest match
RangePhraseAt(s, i, kw, sep) ==
  LET p  == i + Len(kw) + 1
      ce == ChainEnd(s, p)
      ends == {e \in p..ce : /\ IsNonSpace(At(s, e))
                             /\ LitAtI(s, e + 1, " " \o sep \o " ")
                             /\ IsNonSpace(At(s, e + Len(sep) + 3))}
  IN IF LitAtI(s, i, kw \o " ") /\ ends # {}
     THEN LET e  == SetMax(ends)
              p2 == e + Len(sep) + 3
          IN Match(SubSeq(s, p, e), SubSeq(s, p2, ChainEnd(s, p2)), "")
     ELSE NoMatch

\* /minutes? (\d+) to (\d+)/i
MinutePairAt(s, i) ==
  LET j  == IF LitAtI(s, i + 6, "s") THEN i + 7 ELSE i + 6
      e1 == DigitRunEnd(s, j + 1)
      e2 == DigitRunEnd(s, e1 + 5)
  IN IF LitAtI(s, i, "minute") /\ At(s, j) = " " /\ e1 >= j + 1
        /\ LitAtI(s, e1 + 1, " to ") /\ e2 >= e1 + 5
     THEN Match(SubSeq(s, j + 1, e1), SubSeq(s, e1 + 5, e2), "") ELSE NoMatch

\* /kw ([^\s]+(?: [^\s]+)*)/ for after, before (case sensitive), around, about (/i)
TailPhraseAt(s, i, kw, ignoreCase) ==
  LET p == i + Len(kw) + 1
      e == ChainEnd(s, p)
      lit == IF ignoreCase THEN LitAtI(s, i, kw \o " ") ELSE LitAt(s, i, kw \o " ")
  IN IF lit /\ e >= p THEN Match(SubSeq(s, p, e), "", "") ELSE NoMatch

(***************************************************************************)
(* Extractors and classifiers                                              *)
(***************************************************************************)
\* null is the record with m = FALSE; otherwise g1 is the url
extractYoutubeUrl(text) == FirstMatch(text, LAMBDA i : YoutubeUrlAt(text, i))

\* null is the record with m = FALSE; otherwise g1 is the video id
getVideoIdFromUrl(url) == FirstMatch(url, LAMBDA i : VideoIdAt(url, i))

\* the object returned has exactly one of the properties minute, seconds, lastMinute
NoTimeRef == [kind |-> "null", value |-> 0]

extractMinuteOrTimestamp(text) ==
  LET minuteMatch == FirstMatch(text, LAMBDA i : NthMinuteAt(text, i))
      timeMatch   == FirstMatch(text, LAMBDA i : AtTimeAt(text, i))
  IN IF minuteMatch.m THEN [kind |-> "minute", value |-> parseInt(minuteMatch.g1)]
     ELSE IF timeMatch.m
          THEN [kind |-> "seconds", value |-> parseInt(timeMatch.g1) * 60 + parseInt(timeMatch.g2)]
     ELSE IF Contains(text, "last minute") THEN [kind |-> "lastMinute", value |-> 1]
     ELSE NoTimeRef

\* null is the record with m = FALSE; otherwise g1 is the trimmed topic
extractTopic(text) ==
  LET aboutMatch == FirstMatch(text, LAMBDA i : KeywordTopicAt(text, i, "about"))
      topicMatch == FirstMatch(text, LAMBDA i : KeywordTopicAt(text, i, "topic"))
      quoteMatch == FirstMatch(text, LAMBDA i : QuotedAt(text, i))
  IN IF aboutMatch.m THEN Match(trim(aboutMatch.g1), "", "")
     ELSE IF topicMatch.m THEN Match(trim(topicMatch.g1), "", "")
     ELSE IF quoteMatch.m THEN Match(trim(quoteMatch.g1), "", "")
     ELSE NoMatch

isSentimentRequest(text) ==
  \E w \in {"sentiment", "emotion", "feeling", "tone"} : ContainsI(text, w)

isMetadataRequest(text) ==
  \E w \in {"channel", "views", "likes", "date", "published", "duration", "length"} :
     ContainsI(text, w)

(***************************************************************************)
(* parseTimeString and extractTimeRange                                    *)
(***************************************************************************)
DefaultDurationSec == 10800

UnitSeconds(unit) == IF unit = "hour" THEN 3600 ELSE IF unit = "minute" THEN 60 ELSE 1

parseTimeString(str0, videoDurationSec) ==
  LET str == toLowerCase(str0)
      nthMinute   == FirstMatch(str, LAMBDA i : NthMinuteAt(str, i))
      firstMatch  == FirstMatch(str, LAMBDA i : UnitPhraseAt(str, i, "first"))
      lastMatch   == FirstMatch(str, LAMBDA i : UnitPhraseAt(str, i, "last"))
      afterMatch  == FirstMatch(str, LAMBDA i : UnitPhraseAt(str, i, "after"))
      beforeMatch == FirstMatch(str, LAMBDA i : UnitPhraseAt(str, i, "before"))
      hMatch == FirstMatch(str, LAMBDA i : ComponentAt(str, i, "h"))
      mMatch == FirstMatch(str, LAMBDA i : ComponentAt(str, i, "m"))
      sMatch == FirstMatch(str, LAMBDA i : ComponentAt(str, i, "s"))
      colonMatch == FirstMatch(str, LAMBDA i : ColonAt(str, i))
      h == IF colonMatch.m THEN parseInt(colonMatch.g1)
           ELSE IF hMatch.m THEN parseInt(hMatch.g1) ELSE 0
      m == IF colonMatch.m THEN parseInt(colonMatch.g2)
           ELSE IF mMatch.m THEN parseInt(mMatch.g1) ELSE 0
      s == IF colonMatch.m /\ colonMatch.g3 # "" THEN parseInt(colonMatch.g3)
           ELSE IF sMatch.m THEN parseInt(sMatch.g1) ELSE 0
  IN IF nthMinute.m THEN parseInt(nthMinute.g1) * 60
     ELSE IF firstMatch.m THEN 0
     ELSE IF lastMatch.m
          THEN videoDurationSec - parseInt(lastMatch.g1) * UnitSeconds(lastMatch.g2)
     ELSE IF afterMatch.m THEN parseInt(afterMatch.g1) * UnitSeconds(afterMatch.g2)
     ELSE IF beforeMatch.m THEN parseInt(beforeMatch.g1) * UnitSeconds(beforeMatch.g2)
     ELSE IF Contains(str, "half an hour") THEN 30 * 60
     ELSE IF Contains(str, "quarter") THEN 15 * 60
     ELSE IF Contains(str, "midway") \/ Contains(str, "middle") THEN videoDurationSec \div 2
     ELSE h * 3600 + m * 60 + s

NoRange == [some |-> FALSE, start |-> 0, end |-> 0]
Range(a, b) == [some |-> TRUE, start |-> a, end |-> b]

\* text.match(from..to) || text.match(between..and) || text.match(minutes M to N)
rangeMatch(text) ==
  LET fromTo  == FirstMatch(text, LAMBDA i : RangePhraseAt(text, i, "from", "to"))
      between == FirstMatch(text, LAMBDA i : RangePhraseAt(text, i, "between", "and"))
      minutes == FirstMatch(text, LAMBDA i : MinutePairAt(text, i))
  IN IF fromTo.m THEN fromTo ELSE IF between.m THEN between ELSE minutes

\* the branch taken on a range match: rangeMatch[3] && rangeMatch[4] is never true, since
\* each of the three patterns has two capture groups
RangeFromMatch(rm, videoDurationSec) ==
  Range(parseTimeString(rm.g1, videoDurationSec), parseTimeString(rm.g2, videoDurationSec))

\* a plausible slip: the "last" family is tried before the "first" family
extractTimeRange_LastBeforeFirst(text, videoDurationSec) ==
  LET rm          == rangeMatch(text)
      firstMatch  == FirstMatch(text, LAMBDA i : UnitPhraseAt(text, i, "first"))
      lastMatch   == FirstMatch(text, LAMBDA i : UnitPhraseAt(text, i, "last"))
      afterMatch  == FirstMatch(text, LAMBDA i : TailPhraseAt(text, i, "after", FALSE))
      beforeMatch == FirstMatch(text, LAMBDA i : TailPhraseAt(text, i, "before", FALSE))
      around      == FirstMatch(text, LAMBDA i : TailPhraseAt(text, i, "around", TRUE))
      about       == FirstMatch(text, LAMBDA i : TailPhraseAt(text, i, "about", TRUE))
      midway      == Contains(text, "midway") \/ Contains(text, "middle")
      center      == parseTimeString(IF around.m THEN around.g1
                                     ELSE IF about.m THEN about.g1 ELSE "midway",
                                     videoDurationSec)
  IN IF rm.m THEN RangeFromMatch(rm, videoDurationSec)
     ELSE IF lastMatch.m
          THEN Range(videoDurationSec - parseInt(lastMatch.g1) * UnitSeconds(lastMatch.g2),
                     videoDurationSec)
     ELSE IF firstMatch.m
          THEN Range(0, parseInt(firstMatch.g1) * UnitSeconds(firstMatch.g2))
     ELSE IF afterMatch.m
          THEN Range(parseTimeString(afterMatch.g1, videoDurationSec), videoDurationSec)
     ELSE IF beforeMatch.m
          THEN Range(0, parseTimeString(beforeMatch.g1, videoDurationSec))
     ELSE IF around.m \/ about.m \/ midway
          THEN Range(IF center - 60 > 0 THEN center - 60 ELSE 0, center + 60)
     ELSE NoRange

extractTimeRange(text, videoDurationSec) ==
  LET rm          == rangeMatch(text)
      firstMatch  == FirstMatch(text, LAMBDA i : UnitPhraseAt(text, i, "first"))
      lastMatch   == FirstMatch(text, LAMBDA i : UnitPhraseAt(text, i, "last"))
      afterMatch  == FirstMatch(text, LAMBDA i : TailPhraseAt(text, i, "after", FALSE))
      beforeMatch == FirstMatch(text, LAMBDA i : TailPhraseAt(text, i, "before", FALSE))
      around      == FirstMatch(text, LAMBDA i : TailPhraseAt(text, i, "around", TRUE))
      about       == FirstMatch(text, LAMBDA i : TailPhraseAt(text, i, "about", TRUE))
      midway      == Contains(text, "midway") \/ Contains(text, "middle")
      center      == parseTimeString(IF around.m THEN around.g1
                                     ELSE IF about.m THEN about.g1 ELSE "midway",
                                     videoDurationSec)
  IN IF rm.m THEN RangeFromMatch(rm, videoDurationSec)
     ELSE IF firstMatch.m
          THEN Range(0, parseInt(firstMatch.g1) * UnitSeconds(firstMatch.g2))
     ELSE IF lastMatch.m
          THEN Range(videoDurationSec - parseInt(lastMatch.g1) * UnitSeconds(lastMatch.g2),
                     videoDurationSec)
     ELSE IF afterMatch.m
          THEN Range(parseTimeString(afterMatch.g1, videoDurationSec), videoDurationSec)
     ELSE IF beforeMatch.m
          THEN Range(0, parseTimeString(beforeMatch.g1, videoDurationSec))
     ELSE IF around.m \/ about.m \/ midway
          THEN Range(IF center - 60 > 0 THEN center - 60 ELSE 0, center + 60)
     ELSE NoRange

(***************************************************************************)
(* Transcript chunks and the segment selectors                             *)
(***************************************************************************)
\* metadata of a stored document: timing (start, end) and duration are optional
Meta(timed, a, b, durKind, durNum, durStr) ==
  [present |-> TRUE, timed |-> timed, start |-> a, end |-> b,
   durKind |-> durKind, durNum |-> durNum, durStr |-> durStr]
\* metadata = {} before any document is read
EmptyMeta ==
  [present |-> FALSE, timed |-> FALSE, start |-> 0, end |-> 0,
   durKind |-> "none", durNum |-> 0, durStr |-> ""]
\* what ingestion stores: { video_id } only
PlainMeta == Meta(FALSE, 0, 0, "none", 0, "")

Doc(content, meta) == [defined |-> TRUE, pageContent |-> content, metadata |-> meta]
\* the value of docs[idx] for an index outside the array
Undefined == [defined |-> FALSE, pageContent |-> "", metadata |-> EmptyMeta]

CeilDiv(a, b) == (a + b - 1) \div b

\* Array.prototype.slice(from, to) with its handling of negative and large indices
Slice(docs, from, to) ==
  LET n == Len(docs)
      norm(k) == IF k < 0 THEN (IF n + k > 0 THEN n + k ELSE 0) ELSE (IF k > n THEN n ELSE k)
  IN SubSeq(docs, norm(from) + 1, norm(to))

getTranscriptSegmentByMinute(docs, minute) ==
  IF Len(docs) = 0 THEN <<>>
  ELSE LET approxChunkPerMinute == CeilDiv(Len(docs), 10)
           startIdx == (minute - 1) * approxChunkPerMinute
       IN Slice(docs, startIdx, startIdx + approxChunkPerMinute)

\* floor((seconds / (10 * 60)) * docs.length), docs[idx] being undefined past the end
getTranscriptSegmentBySeconds(docs, seconds) ==
  IF Len(docs) = 0 THEN <<>>
  ELSE LET hits == {k \in 1..Len(docs) :
                      /\ docs[k].metadata.present /\ docs[k].metadata.timed
                      /\ docs[k].metadata.start <= seconds /\ docs[k].metadata.end > seconds}
           idx == (seconds * Len(docs)) \div (10 * 60)
       IN IF hits # {} THEN <<docs[SetMin(hits)]>>
          ELSE IF idx < Len(docs) THEN <<docs[idx + 1]>> ELSE <<Undefined>>

getTranscriptSegmentLastMinute(docs) ==
  IF Len(docs) = 0 THEN <<>>
  ELSE LET approxChunkPerMinute == CeilDiv(Len(docs), 10)
       IN Slice(docs, 0 - approxChunkPerMinute, Len(docs))

\* the selection made for a point reference; a minute or seconds value of 0 is falsy
SelectByTimeRef(docs, timeRef) ==
  IF timeRef.kind = "minute" /\ timeRef.value # 0
  THEN getTranscriptSegmentByMinute(docs, timeRef.value)
  ELSE IF timeRef.kind = "seconds" /\ timeRef.value # 0
  THEN getTranscriptSegmentBySeconds(docs, timeRef.value)
  ELSE IF timeRef.kind = "lastMinute" THEN getTranscriptSegmentLastMinute(docs)
  ELSE <<>>

(***************************************************************************)
(* Bounds and the inputs explored                                          *)
(***************************************************************************)
MaxChunks == 3          \* chunks stored per video
MaxIngest == 1          \* ingestions during one request
MaxFnMinute == 4        \* minute and timestamp arguments tried on the selectors
MaxN == 3               \* numbers written into generated phrases
SecondsStep == 150      \* timestamps tried on the selectors are multiples of this
SearchK == 40           \* k of the initial retrieval
TopicK == 4             \* k of the topic retrieval

VideoIds == {"abc"}

UrlParts == <<"", "https://youtu.be/abc ", "https://youtu.be/?x ">>

Phrases ==
  { "summarize this video", "last 5 minutes", "last 2 hours", "first 10 minutes",
    "from 1:00 to 2:00", "from 3:00 to 1:00", "between 1:00 and 2:00",
    "minutes 10 to 20", "minute 1 to 1", "after 5 hours", "before 2 minutes",
    "the 1st minute", "the 0th minute", "the 99th minute", "at 2:30", "at 10:00",
    "the last minute", "what is the sentiment", "how many views",
    "tell me about cats", "the topic cats", "say \"cats\"", "midway", "around 1:00",
    "From 2hr 30min To 3hr" }

Utterances == {UrlParts[u] \o p : u \in 1..3, p \in Phrases}

Durations == {0, 60, 600, 1000, DefaultDurationSec}

TimedDocs ==
  << Doc("c1", Meta(TRUE, 0, 200, "number", 600, "")),
     Doc("c2", Meta(TRUE, 200, 400, "number", 600, "")),
     Doc("c3", Meta(TRUE, 400, 600, "number", 600, "")) >>

ChunkLists ==
  { <<>>,
    <<Doc("p0", PlainMeta)>>,
    <<Doc("p1", PlainMeta), Doc("p2", PlainMeta)>>,
    TimedDocs,
    <<Doc("s1", Meta(FALSE, 0, 0, "string", 0, "10:00")), Doc("s2", PlainMeta)>> }

(***************************************************************************)
(* State                                                                   *)
(***************************************************************************)
VARIABLES
  input,             \* the utterance given to agent
  store,             \* the vector store: video id -> stored chunks, in order
  ingests,           \* number of ingestions so far
  pc,                \* where the request is suspended
  youtubeUrl,        \* agent's locals
  videoId,
  docs,
  metadata,
  videoDurationSec,
  intent,            \* the branch the request is handled by
  segment,           \* the chunks handed to the analyzer
  analysis,          \* shape of the analyzer result handed to the summarizer
  calls,             \* collaborator calls and their outcomes, in order
  logged,            \* console.error messages
  result,            \* what the request ended with
  fnCall,            \* direct call of a resolver function: its arguments
  fnRet              \* and its result

vars == <<input, store, ingests, pc, youtubeUrl, videoId, docs, metadata, videoDurationSec,
          intent, segment, analysis, calls, logged, result, fnCall, fnRet>>

agentVars == <<input, pc, youtubeUrl, videoId, docs, metadata, videoDurationSec,
               intent, segment, analysis, calls, logged, result>>

NoCall == [fn |-> "none", text |-> "", dur |-> 0, docs |-> <<>>, n |-> 0, m |-> 0]
NoRet == [done |-> FALSE, error |-> "none", num |-> 0, range |-> NoRange, seq |-> <<>>]

StoreDocs(id) == IF id \in DOMAIN store THEN store[id] ELSE <<>>

Take(seq, k) == SubSeq(seq, 1, IF Len(seq) < k THEN Len(seq) ELSE k)

\* vectorStore.similaritySearch(query, k, { video_id }) when it succeeds
similaritySearch(k, id) == Take(StoreDocs(id), k)

Init ==
  /\ input \in Utterances
  /\ store \in [VideoIds -> ChunkLists]
  /\ ingests = 0
  /\ pc = "start"
  /\ youtubeUrl = NoMatch
  /\ videoId = NoMatch
  /\ docs = <<>>
  /\ metadata = EmptyMeta
  /\ videoDurationSec = DefaultDurationSec
  /\ intent = "none"
  /\ segment = <<>>
  /\ analysis = "none"
  /\ calls = <<>>
  /\ logged = <<>>
  /\ result = "none"
  /\ fnCall = NoCall
  /\ fnRet = NoRet

(***************************************************************************)
(* agent: the synchronous code between two awaits is one step              *)
(***************************************************************************)
\* where the request goes next
Outcome(nextPc, nextIntent, seg, res, issued) ==
  [pc |-> nextPc, intent |-> nextIntent, segment |-> seg, result |-> res, issued |-> issued]

\* an exception that nothing in agent catches rejects the request
Throw(error, branch) == Outcome("done", branch, <<>>, error, <<>>)

\* analyzeTranscriptSegment(segment, input) up to its await: docs.map reads d.pageContent
AnalyzeSegment(seg, branch) ==
  IF \E k \in 1..Len(seg) : ~seg[k].defined
  THEN Throw("TypeError", branch)
  ELSE Outcome("analyzing", branch, seg, "none", <<"analyze">>)

\* a plausible slip: the sentiment branch hands the transcript to the summarizer directly
AfterTopic_NoAnalysis(text, ds, meta) ==
  IF isSentimentRequest(text) THEN Outcome("summarizing", "Sentiment", ds, "none", <<"summarize">>)
  ELSE IF isMetadataRequest(text)
       THEN IF meta.present
            THEN Outcome("analyzing", "Metadata", <<>>, "none", <<"analyze">>)
            ELSE Outcome("done", "Metadata", <<>>, "Sorry, video metadata is not available.", <<>>)
  ELSE AnalyzeSegment(ds, "FullSummary")

\* branches 3, 4 and 5
AfterTopic(text, ds, meta) ==
  IF isSentimentRequest(text) THEN Outcome("analyzing", "Sentiment", ds, "none", <<"analyze">>)
  ELSE IF isMetadataRequest(text)
       THEN IF meta.present
            THEN Outcome("analyzing", "Metadata", <<>>, "none", <<"analyze">>)
            ELSE Outcome("done", "Metadata", <<>>, "Sorry, video metadata is not available.", <<>>)
  ELSE AnalyzeSegment(ds, "FullSummary")

\* branch 2 up to its await
TopicBranch(text, ds, meta) ==
  LET topic == extractTopic(text)
  IN IF topic.m /\ topic.g1 # ""
     THEN Outcome("topicSearch", "none", <<>>, "none", <<"retrieve">>)
     ELSE AfterTopic(text, ds, meta)

\* branch 1
TimestampBranch(text, ds, meta) ==
  LET timeRef == extractMinuteOrTimestamp(text)
      seg == SelectByTimeRef(ds, timeRef)
  IN IF timeRef.kind # "null" /\ Len(seg) > 0
     THEN AnalyzeSegment(seg, "Timestamp")
     ELSE TopicBranch(text, ds, meta)

\* branch 0: getTranscriptSegmentsByTimeRange is not declared anywhere, so evaluating the
\* call throws a ReferenceError
TimeRangeBranch(text, ds, meta, dur) ==
  LET timeRange == extractTimeRange(text, dur)
  IN IF timeRange.some THEN Throw("ReferenceError", "none")
     ELSE TimestampBranch(text, ds, meta)

\* No transcript yet -> trigger scrape
ScrapeBranch == Outcome("scraping", "Scrape", <<>>, "none", <<"scrape">>)

\* a plausible slip: an off-by-one in the test for retrieved chunks
Route_OffByOne(text, ds, meta, dur) ==
  IF Len(ds) > 1 THEN TimeRangeBranch(text, ds, meta, dur) ELSE ScrapeBranch

Route(text, ds, meta, dur) ==
  IF Len(ds) > 0 THEN TimeRangeBranch(text, ds, meta, dur) ELSE ScrapeBranch

\* settled is the outcome of the call the request was suspended on
Go(settled, o) ==
  /\ pc' = o.pc
  /\ intent' = o.intent
  /\ segment' = o.segment
  /\ result' = o.result
  /\ calls' = calls \o settled \o o.issued

\* the duration read from docs[0].metadata
DurationOf(meta) ==
  IF meta.durKind = "number" /\ meta.durNum # 0 THEN meta.durNum
  ELSE IF meta.durKind = "string" /\ meta.durStr # ""
       THEN parseTimeString(meta.durStr, DefaultDurationSec)
  ELSE DefaultDurationSec

\* a plausible slip: the test is made on the video id instead of the url
Entry_IdOnly(text, url, id) ==
  IF id.m THEN Outcome("retrieving", "none", <<>>, "none", <<"retrieve">>)
  ELSE Route(text, <<>>, EmptyMeta, DefaultDurationSec)

\* if (youtubeUrl) { if (videoId) retrieve; if (docs.length > 0) ... } else fallback
Entry(text, url, id) ==
  IF ~url.m THEN Outcome("passthrough", "Passthrough", <<>>, "none", <<"complete">>)
  ELSE IF id.m THEN Outcome("retrieving", "none", <<>>, "none", <<"retrieve">>)
  ELSE Route(text, <<>>, EmptyMeta, DefaultDurationSec)

\* agent is entered: no url -> the plain completion; no video id -> no retrieval
Start ==
  /\ pc = "start"
  /\ LET url == extractYoutubeUrl(input)
         id  == IF url.m THEN getVideoIdFromUrl(url.g1) ELSE NoMatch
     IN /\ youtubeUrl' = url
        /\ videoId' = id
        /\ Go(<<>>, Entry(input, url, id))
  /\ UNCHANGED <<input, store, ingests, docs, metadata, videoDurationSec, analysis, logged,
                 fnCall, fnRet>>

\* the initial retrieval resolves
RetrieveOk ==
  /\ pc = "retrieving"
  /\ LET ds   == similaritySearch(SearchK, videoId.g1)
         meta == IF Len(ds) > 0 /\ ds[1].metadata.present THEN ds[1].metadata ELSE EmptyMeta
         dur  == DurationOf(meta)
     IN /\ docs' = ds
        /\ metadata' = meta
        /\ videoDurationSec' = dur
        /\ Go(<<"retrieve:ok">>, Route(input, ds, meta, dur))
  /\ UNCHANGED <<input, store, ingests, youtubeUrl, videoId, analysis, logged, fnCall, fnRet>>

\* the initial retrieval rejects: caught and logged, docs stays empty
RetrieveThrows ==
  /\ pc = "retrieving"
  /\ logged' = Append(logged, "Vector store retrieval error:")
  /\ Go(<<"retrieve:throw">>, Route(input, <<>>, EmptyMeta, DefaultDurationSec))
  /\ UNCHANGED <<input, store, ingests, youtubeUrl, videoId, docs, metadata, videoDurationSec,
                 analysis, fnCall, fnRet>>

\* the topic retrieval resolves
TopicSearchOk ==
  /\ pc = "topicSearch"
  /\ LET topicDocs == similaritySearch(TopicK, videoId.g1)
     IN IF Len(topicDocs) > 0 THEN Go(<<"retrieve:ok">>, AnalyzeSegment(topicDocs, "Topic"))
        ELSE Go(<<"retrieve:ok">>, AfterTopic(input, docs, metadata))
  /\ UNCHANGED <<input, store, ingests, youtubeUrl, videoId, docs, metadata, videoDurationSec,
                 analysis, logged, fnCall, fnRet>>

\* the topic retrieval rejects: it is awaited outside any try block
TopicSearchThrows ==
  /\ pc = "topicSearch"
  /\ Go(<<"retrieve:throw">>, Throw("RetrievalError", "none"))
  /\ UNCHANGED <<input, store, ingests, youtubeUrl, videoId, docs, metadata, videoDurationSec,
                 analysis, logged, fnCall, fnRet>>

\* analyzerLLM.invoke resolves; a reply that is not JSON becomes the plain-text shape
AnalyzeOk ==
  /\ pc = "analyzing"
  /\ \E shape \in {"json", "plain"} :
       analysis' = IF intent \in {"Sentiment", "Metadata"} THEN "answer" ELSE shape
  /\ pc' = "summarizing"
  /\ calls' = calls \o <<"analyze:ok", "summarize">>
  /\ UNCHANGED <<input, store, ingests, youtubeUrl, videoId, docs, metadata, videoDurationSec,
                 intent, segment, logged, result, fnCall, fnRet>>

AnalyzeThrows ==
  /\ pc = "analyzing"
  /\ pc' = "done"
  /\ result' = "AnalyzerError"
  /\ calls' = Append(calls, "analyze:throw")
  /\ UNCHANGED <<input, store, ingests, youtubeUrl, videoId, docs, metadata, videoDurationSec,
                 intent, segment, analysis, logged, fnCall, fnRet>>

\* summarizerLLM.invoke resolves inside summarizeAnalyzerResult
SummarizeOk ==
  /\ pc = "summarizing"
  /\ pc' = "done"
  /\ result' = "answer"
  /\ calls' = Append(calls, "summarize:ok")
  /\ UNCHANGED <<input, store, ingests, youtubeUrl, videoId, docs, metadata, videoDurationSec,
                 intent, segment, analysis, logged, fnCall, fnRet>>

SummarizeThrows ==
  /\ pc = "summarizing"
  /\ pc' = "done"
  /\ result' = "SummarizerError"
  /\ calls' = Append(calls, "summarize:throw")
  /\ UNCHANGED <<input, store, ingests, youtubeUrl, videoId, docs, metadata, videoDurationSec,
                 intent, segment, analysis, logged, fnCall, fnRet>>

ScrapeOk ==
  /\ pc = "scraping"
  /\ pc' = "done"
  /\ result' = "The video is being scraped. Please wait about 10 seconds and ask again."
  /\ calls' = Append(calls, "scrape:ok")
  /\ UNCHANGED <<input, store, ingests, youtubeUrl, videoId, docs, metadata, videoDurationSec,
                 intent, segment, analysis, logged, fnCall, fnRet>>

ScrapeThrows ==
  /\ pc = "scraping"
  /\ pc' = "done"
  /\ result' = "Failed to trigger scraping for this video."
  /\ calls' = Append(calls, "scrape:throw")
  /\ logged' = Append(logged, "Failed to trigger scrape:")
  /\ UNCHANGED <<input, store, ingests, youtubeUrl, videoId, docs, metadata, videoDurationSec,
                 intent, segment, analysis, fnCall, fnRet>>

\* Fallback: summarizerLLM.invoke(input)
PassthroughOk ==
  /\ pc = "passthrough"
  /\ pc' = "done"
  /\ result' = "answer"
  /\ calls' = Append(calls, "complete:ok")
  /\ UNCHANGED <<input, store, ingests, youtubeUrl, videoId, docs, metadata, videoDurationSec,
                 intent, segment, analysis, logged, fnCall, fnRet>>

PassthroughThrows ==
  /\ pc = "passthrough"
  /\ pc' = "done"
  /\ result' = "SummarizerError"
  /\ calls' = Append(calls, "complete:throw")
  /\ UNCHANGED <<input, store, ingests, youtubeUrl, videoId, docs, metadata, videoDurationSec,
                 intent, segment, analysis, logged, fnCall, fnRet>>

(***************************************************************************)
(* Ingestion (embeddings.js): the scrape webhook stores a video's chunks   *)
(***************************************************************************)
VideoData ==
  [video_id : VideoIds,
   transcript : {"  ", "text"},
   formatted : {"none", "array", "badJson"},
   description : {"none", "desc"}]

IsBlank(t) == trim(t) = ""

\* the transcript after the fallbacks to formatted_transcript and to description
EffectiveTranscript(v) ==
  LET derived == IF IsBlank(v.transcript) /\ v.formatted = "array"
                 THEN "seg seg" ELSE v.transcript
  IN IF IsBlank(derived) /\ v.description # "none" THEN v.description ELSE derived

NewChunks(n) == [k \in 1..n |-> Doc("t", PlainMeta)]

addYTVideoToVectorStore ==
  /\ ingests < MaxIngest
  /\ \E v \in VideoData, n \in 1..MaxChunks :
       /\ Len(StoreDocs(v.video_id)) + n <= MaxChunks
       /\ store' = IF IsBlank(EffectiveTranscript(v)) THEN store
                   ELSE [store EXCEPT ![v.video_id] = @ \o NewChunks(n)]
  /\ ingests' = ingests + 1
  /\ UNCHANGED agentVars
  /\ UNCHANGED <<fnCall, fnRet>>

Next ==
  \/ Start
  \/ RetrieveOk
  \/ RetrieveThrows
  \/ TopicSearchOk
  \/ TopicSearchThrows
  \/ AnalyzeOk
  \/ AnalyzeThrows
  \/ SummarizeOk
  \/ SummarizeThrows
  \/ ScrapeOk
  \/ ScrapeThrows
  \/ PassthroughOk
  \/ PassthroughThrows
  \/ addYTVideoToVectorStore

Spec == Init /\ [][Next]_vars

(***************************************************************************)
(* The resolver functions called directly                                  *)
(***************************************************************************)
\* decimal numeral of a natural number
RECURSIVE Numeral(_)
Numeral(n) ==
  IF n < 10 THEN SubSeq(Digits, n + 1, n + 1)
  ELSE Numeral(n \div 10) \o SubSeq(Digits, (n % 10) + 1, (n % 10) + 1)

LastMinutesPhrase(n) == "last " \o Numeral(n) \o " minutes"
MinutePairPhrase(m, n) == "minutes " \o Numeral(m) \o " to " \o Numeral(n)
FirstPhrase(n, unit, plural) ==
  "first " \o Numeral(n) \o " " \o unit \o (IF plural THEN "s" ELSE "")
FirstMinutesPhrase(n) == FirstPhrase(n, "minute", TRUE)

\* what an utterance holds before and after its "first N minutes"
FirstContexts ==
  { <<"", "">>, <<"https://youtu.be/abc ", " please">>,
    <<"from 1:00 to 2:00 ", "">>, <<"", " from 1:00 to 2:00">>,
    <<"between 1:00 and 2:00 ", "">>, <<"", " 1 to 2">>,
    <<"first 2 hours ", "">>, <<"", " first 2 hours">>,
    <<"last 2 minutes ", "">>, <<"", " last 2 minutes">>,
    <<"after 1:00 ", "">>, <<"", " around 1:00">> }

TextCall(fn, text, dur, m, n) ==
  [fn |-> fn, text |-> text, dur |-> dur, docs |-> <<>>, n |-> n, m |-> m]
DocsCall(fn, ds, n) ==
  [fn |-> fn, text |-> "", dur |-> 0, docs |-> ds, n |-> n, m |-> 0]

FnCalls ==
  {TextCall(f, p, d, 0, 0) : f \in {"parseTimeString", "extractTimeRange"},
                             p \in Phrases, d \in Durations}
  \cup {TextCall("parseTimeString", LastMinutesPhrase(n), d, 0, n) :
          n \in 0..MaxN, d \in Durations}
  \cup {TextCall("extractTimeRange", MinutePairPhrase(mn[1], mn[2]), d, mn[1], mn[2]) :
          mn \in (0..MaxN) \X (0..MaxN), d \in Durations}
  \cup {TextCall("extractTimeRange", c[1] \o FirstMinutesPhrase(n) \o c[2], d, 0, n) :
          c \in FirstContexts, n \in 0..MaxN, d \in Durations}
  \cup {TextCall("parseTimeString", FirstPhrase(n, Units[u], pl), d, 0, n) :
          n \in 0..MaxN, u \in 1..3, pl \in BOOLEAN, d \in Durations}
  \cup {DocsCall(f, ds, n) :
          f \in {"getTranscriptSegmentsByTimeRange", "getTranscriptSegmentByMinute",
                 "getTranscriptSegmentBySeconds", "getTranscriptSegmentLastMinute"},
          ds \in ChunkLists, n \in 0..MaxFnMinute}

InitFn ==
  /\ fnCall \in FnCalls
  /\ fnRet = NoRet
  /\ input = ""
  /\ store = [id \in VideoIds |-> <<>>]
  /\ ingests = 0
  /\ pc = "idle"
  /\ youtubeUrl = NoMatch
  /\ videoId = NoMatch
  /\ docs = <<>>
  /\ metadata = EmptyMeta
  /\ videoDurationSec = DefaultDurationSec
  /\ intent = "none"
  /\ segment = <<>>
  /\ analysis = "none"
  /\ calls = <<>>
  /\ logged = <<>>
  /\ result = "none"

\* the call returns ret
Returns(ret) ==
  /\ ~fnRet.done
  /\ fnRet' = ret
  /\ UNCHANGED <<fnCall, store, ingests>>
  /\ UNCHANGED agentVars

CallParseTimeString ==
  /\ fnCall.fn = "parseTimeString"
  /\ Returns([NoRet EXCEPT !.done = TRUE, !.num = parseTimeString(fnCall.text, fnCall.dur)])

CallExtractTimeRange ==
  /\ fnCall.fn = "extractTimeRange"
  /\ Returns([NoRet EXCEPT !.done = TRUE,
                           !.range = extractTimeRange(fnCall.text, fnCall.dur)])

\* the identifier is not declared: the call throws
CallSegmentsByTimeRange ==
  /\ fnCall.fn = "getTranscriptSegmentsByTimeRange"
  /\ Returns([NoRet EXCEPT !.done = TRUE, !.error = "ReferenceError"])

CallSegmentByMinute ==
  /\ fnCall.fn = "getTranscriptSegmentByMinute"
  /\ Returns([NoRet EXCEPT !.done = TRUE,
                           !.seq = getTranscriptSegmentByMinute(fnCall.docs, fnCall.n)])

CallSegmentBySeconds ==
  /\ fnCall.fn = "getTranscriptSegmentBySeconds"
  /\ Returns([NoRet EXCEPT
                !.done = TRUE,
                !.seq = getTranscriptSegmentBySeconds(fnCall.docs, fnCall.n * SecondsStep)])

CallSegmentLastMinute ==
  /\ fnCall.fn = "getTranscriptSegmentLastMinute"
  /\ Returns([NoRet EXCEPT !.done = TRUE,
                           !.seq = getTranscriptSegmentLastMinute(fnCall.docs)])

NextFn ==
  \/ CallParseTimeString
  \/ CallExtractTimeRange
  \/ CallSegmentsByTimeRange
  \/ CallSegmentByMinute
  \/ CallSegmentBySeconds
  \/ CallSegmentLastMinute

SpecFn == InitFn /\ [][NextFn]_vars

(***************************************************************************)
(* Properties                                                              *)
(***************************************************************************)
Intents == {"TimeRange", "Timestamp", "Topic", "Sentiment", "Metadata", "FullSummary"}
Exceptions == {"ReferenceError", "TypeError", "RetrievalError", "AnalyzerError", "SummarizerError"}

Called(event) == \E i \in 1..Len(calls) : calls[i] = event

Max0(x) == IF x > 0 THEN x ELSE 0

RangeHit == extractTimeRange(input, videoDurationSec).some
PointHit ==
  LET timeRef == extractMinuteOrTimestamp(input)
  IN timeRef.kind # "null" /\ Len(SelectByTimeRef(docs, timeRef)) > 0

\* C1: a finished request that retrieved chunks was handled by one of the six intent
\* branches, the first one satisfied in the order TimeRange, Timestamp, Topic, Sentiment,
\* Metadata, FullSummary; an utterance matching the range extractor is never handled by a
\* later branch unless the range selection was empty, and one matching no range but a
\* non-empty point selection is handled by Timestamp.
C1_FirstSatisfiedBranchWins ==
  (pc = "done" /\ Len(docs) > 0) =>
     /\ intent \in Intents
     /\ (intent = "TimeRange" => RangeHit)
     /\ (intent = "Timestamp" => PointHit)
     /\ (~RangeHit /\ PointHit => intent = "Timestamp")
     /\ (~RangeHit /\ ~PointHit /\ ~extractTopic(input).m /\ isSentimentRequest(input)
           => intent = "Sentiment")

\* C2: no request ends in an uncaught exception: it ends with a message or an answer.
C2_NoUncaughtException == pc = "done" => result \notin Exceptions

\* C3: in a request, a summarize call is preceded by a completed analyze call and no
\* analyze call is made after a summarize call.
C3_AnalyzeThenSummarize ==
  \A i \in 1..Len(calls) :
     calls[i] = "summarize" =>
        /\ \E j \in 1..(i - 1) : calls[j] = "analyze:ok"
        /\ \A j \in (i + 1)..Len(calls) : calls[j] # "analyze"

C3_Witness == pc = "done" /\ result = "answer" /\ intent = "Sentiment" /\ Called("summarize")

\* C4 as stated: with no video id resolvable the request takes Passthrough and never
\* invokes retrieval, analysis or the scrape trigger.
C4_NoVideoIdIsPassthrough ==
  (pc # "start" /\ ~videoId.m) =>
     /\ intent = "Passthrough"
     /\ ~Called("retrieve") /\ ~Called("analyze") /\ ~Called("scrape")

\* C4 amended: with no YouTube url in the utterance the request takes Passthrough and never
\* invokes retrieval, analysis or the scrape trigger; with a url that holds no video id it
\* never invokes retrieval or analysis, and it invokes the scrape trigger.
C4_NoUrlIsPassthrough ==
  pc # "start" =>
     /\ ~youtubeUrl.m =>
          /\ intent = "Passthrough"
          /\ ~Called("retrieve") /\ ~Called("analyze") /\ ~Called("scrape")
     /\ (youtubeUrl.m /\ ~videoId.m) =>
          /\ intent = "Scrape"
          /\ ~Called("retrieve") /\ ~Called("analyze") /\ Called("scrape")

C4_Witness == pc = "done" /\ ~youtubeUrl.m /\ intent = "Passthrough" /\ Called("complete:ok")

\* C5: a range returned by extractTimeRange satisfies 0 <= start <= end <= durationSec.
C5_RangeWithinDuration ==
  (fnCall.fn = "extractTimeRange" /\ fnRet.done /\ fnRet.range.some) =>
     /\ 0 <= fnRet.range.start
     /\ fnRet.range.start <= fnRet.range.end
     /\ fnRet.range.end <= fnCall.dur

\* C6: parseTimeString never returns a negative number, and for "last N minutes" it
\* returns D - N*60 clamped at 0.
C6_LastMinutesClamped ==
  (fnCall.fn = "parseTimeString" /\ fnRet.done) =>
     /\ fnRet.num >= 0
     /\ (fnCall.text = LastMinutesPhrase(fnCall.n) =>
           fnRet.num = Max0(fnCall.dur - fnCall.n * 60))

Selectors ==
  {"getTranscriptSegmentsByTimeRange", "getTranscriptSegmentByMinute",
   "getTranscriptSegmentBySeconds", "getTranscriptSegmentLastMinute"}

\* C7: a selector never raises, returns the empty sequence for an empty chunk list, and
\* returns only chunks of its input.
C7_SelectorsTotal ==
  (fnCall.fn \in Selectors /\ fnRet.done) =>
     /\ fnRet.error = "none"
     /\ (Len(fnCall.docs) = 0 => fnRet.seq = <<>>)
     /\ \A k \in 1..Len(fnRet.seq) : \E j \in 1..Len(fnCall.docs) : fnRet.seq[k] = fnCall.docs[j]

ScrapeInvoked == pc # "scraping" /\ pc' = "scraping"

\* C8 as stated: the scrape trigger is never invoked for a video that has chunks stored.
C8_ScrapeOnlyWithoutStoredChunks ==
  [][ScrapeInvoked => (videoId'.m => Len(StoreDocs(videoId'.g1)) = 0)]_vars

\* C8 amended: the scrape trigger is invoked only when the request holds no retrieved
\* chunks: no video id was found, or the store held no chunk of the video when it was
\* read, or the retrieval threw (chunks may then be stored).
C8_ScrapeOnlyWithoutRetrievedChunks ==
  [][ScrapeInvoked =>
       /\ Len(docs') = 0
       /\ \/ ~videoId'.m
          \/ Len(StoreDocs(videoId'.g1)) = 0
          \/ calls'[Len(calls') - 1] = "retrieve:throw"]_vars

C8_Witness == pc = "scraping" /\ videoId.m /\ Called("retrieve:ok") /\ Len(docs) = 0

\* C9: every retrieval that throws is caught and logged, and the request goes on to the
\* scrape trigger.
C9_RetrievalFailureFallsToScrape ==
  \A i \in 1..Len(calls) :
     calls[i] = "retrieve:throw" =>
        /\ Len(logged) > 0
        /\ result \notin Exceptions
        /\ i < Len(calls) /\ calls[i + 1] = "scrape"

\* C10: for "minutes M to N" extractTimeRange returns {start: M*60, end: N*60}.
C10_MinutePairTimesSixty ==
  (fnCall.fn = "extractTimeRange" /\ fnRet.done
     /\ fnCall.text = MinutePairPhrase(fnCall.m, fnCall.n)) =>
     fnRet.range = Range(fnCall.m * 60, fnCall.n * 60)

FirstMinutesCall ==
  /\ fnCall.fn = "extractTimeRange"
  /\ fnRet.done
  /\ Contains(fnCall.text, FirstMinutesPhrase(fnCall.n))

\* C11 as stated: for an utterance containing "first N minutes" extractTimeRange returns
\* {start: 0, end: N*60}, whatever else the utterance contains.
C11_FirstMinutesAlways == FirstMinutesCall => fnRet.range = Range(0, fnCall.n * 60)

\* the leftmost "first <number> <unit>" of the utterance is "first N minute(s)"
LeftmostFirstIsMinutes(text, n) ==
  LET fm == FirstMatch(text, LAMBDA i : UnitPhraseAt(text, i, "first"))
  IN fm.m /\ fm.g1 = Numeral(n) /\ fm.g2 = "minute"

\* C11 amended: for an utterance that matches none of the explicit range patterns
\* (from..to, between..and, minutes M to N) and whose leftmost "first <number> <unit>"
\* is "first N minutes", extractTimeRange returns {start: 0, end: N*60} for every duration,
\* whatever last, after, before or around phrases the utterance also contains.
C11_FirstMinutesWithoutExplicitRange ==
  (FirstMinutesCall /\ ~rangeMatch(fnCall.text).m
     /\ LeftmostFirstIsMinutes(fnCall.text, fnCall.n)) =>
     fnRet.range = Range(0, fnCall.n * 60)

C11_Witness ==
  /\ FirstMinutesCall
  /\ ~rangeMatch(fnCall.text).m
  /\ LeftmostFirstIsMinutes(fnCall.text, fnCall.n)
  /\ Contains(fnCall.text, "last 2 minutes")
  /\ fnCall.n > 0
  /\ fnRet.range = Range(0, fnCall.n * 60)

\* C12: parseTimeString returns 0 for every phrase "first N minute(s)|hour(s)|second(s)".
C12_FirstPhraseIsZero ==
  (fnCall.fn = "parseTimeString" /\ fnRet.done
     /\ \E u \in 1..3, pl \in BOOLEAN : fnCall.text = FirstPhrase(fnCall.n, Units[u], pl)) =>
     fnRet.num = 0

====
